---- MODULE Spec2Model ----
(***************************************************************************)
(* GitHubPlatformService (autopr/services/platform_service.py).            *)
(*                                                                         *)
(* One service instance with its two pieces of session state               *)
(* (_drafts_supported, _pr_node_id) and the coroutines running on it.      *)
(* A coroutine runs without interruption from one network await to the     *)
(* next, so every action below is one such stretch: it consumes the        *)
(* response of the request the task is waiting for (status and body        *)
(* together: nothing of the instance is read or written between the two)   *)
(* and runs the code up to the next request or to the end of the call.     *)
(* parse_event and _extract_issue use the blocking requests library and    *)
(* never yield, so they are part of the stretch that calls them.           *)
(* _log_failed_request (lines 203-226) reads the failed response and logs  *)
(* it: it touches nothing of the instance and is taken to complete, as its *)
(* except clause provides for a body that is not JSON.                     *)
(***************************************************************************)
EXTENDS Integers, Sequences, FiniteSets, TLC

\* ---------------------------------------------------------------- bounds
MaxCalls == 2
MaxBodies == 3
MaxIssues == 2
MaxComments == 2

\* ------------------------------------------------------------- universes
Tasks == {"t1", "t2"}
SerialTasks == {"t1"}
BodyTexts == {"A", "B"}
PrNumbers == {1, 2}
CommentIds == {"id1", "id2"}
NodeIds == {"N1", "N2"}

SeqsUpTo(S, n) == UNION {[1..k -> S] : k \in 0..n}

BodyLists == SeqsUpTo(BodyTexts, MaxBodies)

\* PlatformService.PRBodySentinel
PRBodySentinel == "PRBodySentinel"

\* self._pr_node_id = None
None == "None"

VARIABLES
    drafts_supported,   \* self._drafts_supported
    pr_node_id,         \* self._pr_node_id
    pc,                 \* per task: the request it is waiting for, idle or done
    frame,              \* per task: arguments and locals of the running call
    reqs,               \* per task: the requests the current call has issued
    resps,              \* per task: the responses the current call has received
    outcome,            \* per task: how the last call ended and with what
    node_fetches,       \* per PR number: identifier fetches issued by the instance
    calls,              \* calls started on the instance
    history,            \* what has happened on the instance so far (see NoHistory)
    pure                \* a function applied on its own: its arguments and its result

vars ==
    <<drafts_supported, pr_node_id, pc, frame, reqs, resps, outcome, node_fetches, calls,
      history, pure>>

\* ------------------------------------------------------------- requests
\* One request on the wire. Fields a request does not have are "-" / 0.
CreateReq(body, draft) ==
    [kind |-> "create_pr", pr |-> 0, body |-> body, draft |-> draft, id |-> "-"]
CommentReq(body, pr) ==
    [kind |-> "publish_comment", pr |-> pr, body |-> body, draft |-> "absent", id |-> "-"]
NodeIdReq(pr) ==
    [kind |-> "get_node_id", pr |-> pr, body |-> "-", draft |-> "absent", id |-> "-"]
MutationReq(mutation, id) ==
    [kind |-> mutation, pr |-> 0, body |-> "-", draft |-> "absent", id |-> id]
PatchPrReq(pr, field, text) ==
    [kind |-> "patch_pr", pr |-> pr, body |-> text, draft |-> "absent", id |-> field]
PatchCommentReq(comment_id, text) ==
    [kind |-> "update_comment", pr |-> 0, body |-> text, draft |-> "absent", id |-> comment_id]
FindPrReq ==
    [kind |-> "find_existing_pr", pr |-> 0, body |-> "-", draft |-> "absent", id |-> "-"]
IssuesReq(state) ==
    [kind |-> "get_issues", pr |-> 0, body |-> state, draft |-> "absent", id |-> "-"]
CommentsReq(url) ==
    [kind |-> "get_comments", pr |-> 0, body |-> url, draft |-> "absent", id |-> "-"]

\* ------------------------------------------------------------ responses
\* Body of a rejected creation: JSON or not, and its 'message' (<<>>: no such key).
DraftMessage == "Draft pull requests are not supported in this repository."
OtherMessage == "Validation Failed"
DraftMessages == {DraftMessage}

ErrorBodies ==
    {[json |-> TRUE, message |-> m] : m \in {<<>>, <<DraftMessage>>, <<OtherMessage>>}}
    \cup {[json |-> FALSE, message |-> <<>>]}

CreateResponses ==
    {[status |-> 201, number |-> n, text |-> [json |-> TRUE, message |-> <<>>]] : n \in PrNumbers}
    \cup {[status |-> 422, number |-> 0, text |-> b] : b \in ErrorBodies}

CommentResponses ==
    {[status |-> 201, id |-> i] : i \in CommentIds}
    \cup {[status |-> 404, id |-> "-"]}

\* --------------------------------------------------------------- frames
NoFrame ==
    [op |-> "-", bodies |-> <<>>, draft |-> FALSE, data |-> "absent",
     pr_number |-> 0, comment_ids |-> <<>>, is_draft |-> FALSE,
     drafts_at_start |-> TRUE, event_name |-> "-", action |-> <<>>]

\* issues: get_issues' list; event: parse_event's event, <<>> when there is none;
\* ret: an Optional result, <<>> for None.
NoOutcome ==
    [how |-> "-", exc |-> "-", pr_number |-> 0, comment_ids |-> <<>>,
     issues |-> <<>>, event |-> <<>>, ret |-> <<>>]

Returned(pr_number, comment_ids) ==
    [NoOutcome EXCEPT !.how = "returned", !.pr_number = pr_number,
                      !.comment_ids = comment_ids]

ReturnedIssues(issues) == [NoOutcome EXCEPT !.how = "returned", !.issues = issues]

ReturnedEvent(event) == [NoOutcome EXCEPT !.how = "returned", !.event = <<event>>]

ReturnedOptional(ret) == [NoOutcome EXCEPT !.how = "returned", !.ret = ret]

Raised(exc) == [NoOutcome EXCEPT !.how = "raised", !.exc = exc]

\* failed_fetches: identifier fetches answered with a failure;
\* overlapped: a call has begun while another task was inside a call;
\* unsupported_mutations: mutation requests issued while the flag was false.
NoHistory == [failed_fetches |-> 0, overlapped |-> FALSE, unsupported_mutations |-> 0]

\* No function is being applied on its own.
NoPure == [fn |-> "-", arg |-> <<>>, result |-> <<>>]

\* The instance after __init__ (lines 187-201), no call begun.
InitInstance ==
    /\ drafts_supported = TRUE
    /\ pr_node_id = None
    /\ pc = [t \in Tasks |-> "idle"]
    /\ frame = [t \in Tasks |-> NoFrame]
    /\ reqs = [t \in Tasks |-> <<>>]
    /\ resps = [t \in Tasks |-> <<>>]
    /\ outcome = [t \in Tasks |-> NoOutcome]
    /\ node_fetches = [p \in PrNumbers |-> 0]
    /\ calls = 0
    /\ history = NoHistory

Init == InitInstance /\ pure = NoPure

\* A task may begin a call when it is not inside one.
CanStart(t) == pc[t] = "idle" /\ calls < MaxCalls

\* Another task is inside a call.
Overlapping(t) == \E u \in Tasks \ {t} : pc[u] \notin {"idle", "done"}

\* The caller's await of a finished call completes: the task is free again.
await_result(t) ==
    /\ pc[t] = "done"
    /\ pc' = [pc EXCEPT ![t] = "idle"]
    /\ frame' = [frame EXCEPT ![t] = NoFrame]
    /\ reqs' = [reqs EXCEPT ![t] = <<>>]
    /\ resps' = [resps EXCEPT ![t] = <<>>]
    /\ outcome' = [outcome EXCEPT ![t] = NoOutcome]
    /\ UNCHANGED <<drafts_supported, pr_node_id, node_fetches, calls, history, pure>>

\* The call of t ends.
Finish(t, out) ==
    /\ pc' = [pc EXCEPT ![t] = "done"]
    /\ outcome' = [outcome EXCEPT ![t] = out]

\* t receives the response to its request of kind `to`.
Recv(t, to, resp) == resps' = [resps EXCEPT ![t] = Append(@, [to |-> to, resp |-> resp])]

\* t issues a request and waits for its response at `at`.
Send(t, req, at) ==
    /\ reqs' = [reqs EXCEPT ![t] = Append(@, req)]
    /\ pc' = [pc EXCEPT ![t] = at]

\* ------------------------------------------------------------ create_pr
\* data['draft'] as it would be built without looking at the flag.
DraftField_unconditional(supported, draft) == IF draft THEN "true" ELSE "false"

\* data['draft'] as it would be if only draft=True were ever put in the request.
DraftField_only_when_true(supported, draft) ==
    IF supported /\ draft THEN "true" ELSE "absent"

\* data['draft'] as create_pr builds it (lines 271-278).
DraftField(supported, draft) ==
    IF supported THEN (IF draft THEN "true" ELSE "false") ELSE "absent"

\* The signature test as it would be if any 'message' counted.
is_draft_error_any_message(text) == text.message # <<>>

\* _is_draft_error's test on a parsed body (lines 343-344).
is_draft_error(text) ==
    /\ text.message # <<>>
    /\ text.message[1] \in DraftMessages

\* The flag as it would be if assigned on every call: self._drafts_supported = not is_draft_error.
drafts_assigned_every_time(text, supported) == ~is_draft_error(text)

\* The flag as it would be if any rejected creation cleared it.
drafts_cleared_by_any_rejection(text, supported) == FALSE

\* self._drafts_supported after _is_draft_error has looked at a body (lines 345-347).
drafts_after_is_draft_error(text, supported) ==
    IF is_draft_error(text) THEN FALSE ELSE supported

\* create_pr up to its first request (lines 269-281).
create_pr(t, bodies, draft) ==
    /\ CanStart(t)
    /\ calls' = calls + 1
    /\ history' = [history EXCEPT !.overlapped = @ \/ Overlapping(t)]
    /\ LET data == DraftField(drafts_supported, draft)
           f == [NoFrame EXCEPT !.op = "create_pr", !.bodies = bodies, !.draft = draft,
                                !.data = data, !.drafts_at_start = drafts_supported]
       IN  /\ frame' = [frame EXCEPT ![t] = f]
           /\ IF bodies = <<>>
              THEN /\ reqs' = [reqs EXCEPT ![t] = <<>>]
                   /\ Finish(t, Raised("IndexError"))
              ELSE /\ reqs' = [reqs EXCEPT ![t] = <<CreateReq(bodies[1], data)>>]
                   /\ pc' = [pc EXCEPT ![t] = "create_first"]
                   /\ outcome' = [outcome EXCEPT ![t] = NoOutcome]
    /\ UNCHANGED <<drafts_supported, pr_node_id, resps, node_fetches, pure>>

\* The loop as it would be with bodies[2:] for bodies[1:]: one body is never published.
PublishNext_skips_a_body(t, pr_number, comment_ids) ==
    LET bodies == frame[t].bodies
        k == Len(comment_ids) + 2
    IN  /\ frame' = [frame EXCEPT ![t].pr_number = pr_number,
                                  ![t].comment_ids = comment_ids]
        /\ IF k <= Len(bodies)
           THEN /\ Send(t, CommentReq(bodies[k], pr_number), "create_comment")
                /\ UNCHANGED outcome
           ELSE /\ Finish(t, Returned(pr_number, comment_ids))
                /\ UNCHANGED reqs

\* After the PR exists (lines 307-321): the comment loop, entered or resumed with
\* the ids collected so far. Publishes the next body or returns.
PublishNext(t, pr_number, comment_ids) ==
    LET bodies == frame[t].bodies
        k == Len(comment_ids) + 1
    IN  /\ frame' = [frame EXCEPT ![t].pr_number = pr_number,
                                  ![t].comment_ids = comment_ids]
        /\ IF k <= Len(bodies)
           THEN /\ Send(t, CommentReq(bodies[k], pr_number), "create_comment")
                /\ UNCHANGED outcome
           ELSE /\ Finish(t, Returned(pr_number, comment_ids))
                /\ UNCHANGED reqs

\* The first creation response (lines 282-306).
create_pr_first_response(t, resp) ==
    /\ pc[t] = "create_first"
    /\ Recv(t, "create_pr", resp)
    /\ IF resp.status = 201
       THEN /\ PublishNext(t, resp.number, <<PRBodySentinel>>)
            /\ UNCHANGED drafts_supported
       ELSE IF ~resp.text.json
       THEN \* json.loads raises inside _is_draft_error
            /\ Finish(t, Raised("JSONDecodeError"))
            /\ UNCHANGED <<drafts_supported, frame, reqs>>
       ELSE IF is_draft_error(resp.text)
       THEN /\ drafts_supported' = drafts_after_is_draft_error(resp.text, drafts_supported)
            /\ IF frame[t].data = "absent"
               THEN \* del data['draft'] on a dict without the key
                    /\ Finish(t, Raised("KeyError"))
                    /\ UNCHANGED <<frame, reqs>>
               ELSE /\ frame' = [frame EXCEPT ![t].data = "absent"]
                    /\ Send(t, CreateReq(frame[t].bodies[1], "absent"), "create_second")
                    /\ UNCHANGED outcome
       ELSE /\ drafts_supported' = drafts_after_is_draft_error(resp.text, drafts_supported)
            /\ Finish(t, Raised("RuntimeError"))
            /\ UNCHANGED <<frame, reqs>>
    /\ UNCHANGED <<pr_node_id, node_fetches, calls, history, pure>>

\* The response to the retry without the draft field (lines 287-297).
create_pr_second_response(t, resp) ==
    /\ pc[t] = "create_second"
    /\ Recv(t, "create_pr", resp)
    /\ IF resp.status # 201
       THEN /\ Finish(t, Raised("RuntimeError"))
            /\ UNCHANGED <<frame, reqs>>
       ELSE PublishNext(t, resp.number, <<PRBodySentinel>>)
    /\ UNCHANGED <<drafts_supported, pr_node_id, node_fetches, calls, history, pure>>

\* publish_comment's result for a response (lines 449-460): the id, or None.
publish_comment_result(resp) == IF resp.status = 201 THEN resp.id ELSE None

\* The loop as it would be with the commented-out line 318 for the raise of line
\* 317: the failure is logged and the loop goes on.
create_pr_comment_response_logs_only(t, resp) ==
    /\ pc[t] = "create_comment"
    /\ Recv(t, "publish_comment", resp)
    /\ PublishNext(t, frame[t].pr_number,
                   Append(frame[t].comment_ids, publish_comment_result(resp)))
    /\ UNCHANGED <<drafts_supported, pr_node_id, node_fetches, calls, history, pure>>

\* One comment's response inside create_pr's loop (lines 314-319).
create_pr_comment_response(t, resp) ==
    /\ pc[t] = "create_comment"
    /\ Recv(t, "publish_comment", resp)
    /\ LET id_ == publish_comment_result(resp)
       IN  IF id_ = None
           THEN /\ Finish(t, Raised("RuntimeError"))
                /\ UNCHANGED <<frame, reqs>>
           ELSE PublishNext(t, frame[t].pr_number, Append(frame[t].comment_ids, id_))
    /\ UNCHANGED <<drafts_supported, pr_node_id, node_fetches, calls, history, pure>>

\* -------------------------------------------------- set_pr_draft_status
NodeIdResponses ==
    {[status |-> 200, node_id |-> n] : n \in NodeIds}
    \cup {[status |-> 404, node_id |-> "-"]}

MutationResponses == {[status |-> 200], [status |-> 502]}

\* The GraphQL mutation chosen for is_draft (lines 375-390).
graphql_query(is_draft) ==
    IF is_draft THEN "convertPullRequestToDraft" ELSE "markPullRequestReadyForReview"

\* The mutation request (lines 391-401); self._pr_node_id is read when it is built.
SendMutation(t, is_draft, node_id) ==
    Send(t, MutationReq(graphql_query(is_draft), node_id), "mutation")

\* The early return as it would be without its test.
drafts_unsupported_unchecked == FALSE

\* The early return as it would be if taken only while no identifier is cached.
drafts_unsupported_when_uncached == ~drafts_supported /\ pr_node_id = None

\* The early return of lines 369-370.
drafts_unsupported == ~drafts_supported

\* The fetch as it would be without the cache test.
node_id_missing_unchecked == TRUE

\* The test of line 371: the identifier has to be fetched.
node_id_missing == pr_node_id = None

\* set_pr_draft_status up to its first request (lines 368-372, 350-355).
set_pr_draft_status(t, pr_number, is_draft) ==
    /\ CanStart(t)
    /\ calls' = calls + 1
    /\ history' = [history EXCEPT
                      !.overlapped = @ \/ Overlapping(t),
                      !.unsupported_mutations =
                          IF ~drafts_unsupported /\ ~node_id_missing /\ ~drafts_supported
                          THEN @ + 1 ELSE @]
    /\ frame' = [frame EXCEPT ![t] =
                    [NoFrame EXCEPT !.op = "set_pr_draft_status", !.pr_number = pr_number,
                                    !.is_draft = is_draft,
                                    !.drafts_at_start = drafts_supported]]
    /\ IF drafts_unsupported
       THEN /\ reqs' = [reqs EXCEPT ![t] = <<>>]
            /\ Finish(t, Returned(0, <<>>))
            /\ UNCHANGED node_fetches
       ELSE IF node_id_missing
       THEN /\ reqs' = [reqs EXCEPT ![t] = <<NodeIdReq(pr_number)>>]
            /\ pc' = [pc EXCEPT ![t] = "node_fetch"]
            /\ outcome' = [outcome EXCEPT ![t] = NoOutcome]
            /\ node_fetches' = [node_fetches EXCEPT ![pr_number] = @ + 1]
       ELSE /\ reqs' = [reqs EXCEPT ![t] =
                           <<MutationReq(graphql_query(is_draft), pr_node_id)>>]
            /\ pc' = [pc EXCEPT ![t] = "mutation"]
            /\ outcome' = [outcome EXCEPT ![t] = NoOutcome]
            /\ UNCHANGED node_fetches
    /\ UNCHANGED <<drafts_supported, pr_node_id, resps, pure>>

\* The fetch's response as it would be if a failed fetch degraded like a failed mutation.
node_id_response_degrades(t, resp) ==
    /\ pc[t] = "node_fetch"
    /\ Recv(t, "get_node_id", resp)
    /\ IF resp.status = 200
       THEN /\ pr_node_id' = resp.node_id
            /\ SendMutation(t, frame[t].is_draft, resp.node_id)
            /\ history' = [history EXCEPT !.unsupported_mutations =
                                             IF drafts_supported THEN @ ELSE @ + 1]
            /\ UNCHANGED <<outcome, drafts_supported>>
       ELSE /\ Finish(t, Returned(0, <<>>))
            /\ drafts_supported' = FALSE
            /\ history' = [history EXCEPT !.failed_fetches = @ + 1]
            /\ UNCHANGED <<pr_node_id, reqs>>
    /\ UNCHANGED <<frame, node_fetches, calls, pure>>

\* The fetch's response as it would be if the identifier were kept in a local
\* variable and never assigned to self._pr_node_id.
node_id_response_uncached(t, resp) ==
    /\ pc[t] = "node_fetch"
    /\ Recv(t, "get_node_id", resp)
    /\ IF resp.status = 200
       THEN /\ SendMutation(t, frame[t].is_draft, resp.node_id)
            /\ history' = [history EXCEPT !.unsupported_mutations =
                                             IF drafts_supported THEN @ ELSE @ + 1]
            /\ UNCHANGED outcome
       ELSE /\ Finish(t, Raised("RuntimeError"))
            /\ history' = [history EXCEPT !.failed_fetches = @ + 1]
            /\ UNCHANGED reqs
    /\ UNCHANGED <<drafts_supported, pr_node_id, frame, node_fetches, calls, pure>>

\* _get_pull_request_node_id's response (lines 356-366), the assignment of line 372
\* and the code up to the mutation request.
node_id_response(t, resp) ==
    /\ pc[t] = "node_fetch"
    /\ Recv(t, "get_node_id", resp)
    /\ IF resp.status = 200
       THEN /\ pr_node_id' = resp.node_id
            /\ SendMutation(t, frame[t].is_draft, resp.node_id)
            /\ history' = [history EXCEPT !.unsupported_mutations =
                                             IF drafts_supported THEN @ ELSE @ + 1]
            /\ UNCHANGED outcome
       ELSE /\ Finish(t, Raised("RuntimeError"))
            /\ history' = [history EXCEPT !.failed_fetches = @ + 1]
            /\ UNCHANGED <<pr_node_id, reqs>>
    /\ UNCHANGED <<drafts_supported, frame, node_fetches, calls, pure>>

\* The mutation's response as it would be if a failure were raised like a failed fetch.
mutation_response_raises(t, resp) ==
    /\ pc[t] = "mutation"
    /\ Recv(t, graphql_query(frame[t].is_draft), resp)
    /\ drafts_supported' = IF resp.status = 200 THEN drafts_supported ELSE FALSE
    /\ Finish(t, IF resp.status = 200 THEN Returned(0, <<>>) ELSE Raised("RuntimeError"))
    /\ UNCHANGED <<pr_node_id, frame, reqs, node_fetches, calls, history, pure>>

\* The mutation's response as it would be if a failure also dropped the cached identifier.
mutation_response_invalidates(t, resp) ==
    /\ pc[t] = "mutation"
    /\ Recv(t, graphql_query(frame[t].is_draft), resp)
    /\ drafts_supported' = IF resp.status = 200 THEN drafts_supported ELSE FALSE
    /\ pr_node_id' = IF resp.status = 200 THEN pr_node_id ELSE None
    /\ Finish(t, Returned(0, <<>>))
    /\ UNCHANGED <<frame, reqs, node_fetches, calls, history, pure>>

\* The mutation's response (lines 402-414).
mutation_response(t, resp) ==
    /\ pc[t] = "mutation"
    /\ Recv(t, graphql_query(frame[t].is_draft), resp)
    /\ drafts_supported' = IF resp.status = 200 THEN drafts_supported ELSE FALSE
    /\ Finish(t, Returned(0, <<>>))
    /\ UNCHANGED <<pr_node_id, frame, reqs, node_fetches, calls, history, pure>>

\* ------------------------------------------------- issue / PR extraction
\* A comments_url: the part startswith() looks at, and the rest.
ApiPrefix == "https://api.github.com/repos/"
Urls ==
    {[prefix |-> ApiPrefix, rest |-> r] : r \in {"o/r/issues/1/comments",
                                                  "o/r/issues/2/comments",
                                                  "o/r/issues/3/comments"}}
    \cup {[prefix |-> "https://evil.example/repos/", rest |-> "o/r/issues/1/comments"]}

\* A JSON string-or-null: <<>> is null, <<s>> the string s.
JsonBodies == {<<>>, <<"">>, <<"text">>}

CommentJson(body, login) == [body |-> body, login |-> login]

\* What the platform answers on a comments URL.
comments_response(url) ==
    IF url.rest = "o/r/issues/1/comments"
    THEN [status |-> 200,
          json |-> <<CommentJson(<<"first">>, "bob"), CommentJson(<<>>, "carol")>>]
    ELSE IF url.rest = "o/r/issues/2/comments"
    THEN [status |-> 200, json |-> <<>>]
    ELSE [status |-> 404, json |-> <<>>]

\* Python's `x or ""` on a JSON string-or-null.
or_empty(v) == IF v = <<>> THEN "" ELSE v[1]

Message(body, author) == [body |-> body, author |-> author]

\* The loop as it would be if it kept only the comments that have a body.
RECURSIVE comment_messages_skips_empty(_)
comment_messages_skips_empty(comments_json) ==
    IF comments_json = <<>> THEN <<>>
    ELSE (IF or_empty(Head(comments_json).body) = "" THEN <<>>
          ELSE <<Message(or_empty(Head(comments_json).body), Head(comments_json).login)>>)
         \o comment_messages_skips_empty(Tail(comments_json))

\* The loop of lines 478-483.
RECURSIVE comment_messages(_)
comment_messages(comments_json) ==
    IF comments_json = <<>> THEN <<>>
    ELSE <<Message(or_empty(Head(comments_json).body), Head(comments_json).login)>>
         \o comment_messages(Tail(comments_json))

\* _extract_issue as it would be without the assert of line 464.
extract_issue_from_unvalidated(issue_json, response) ==
    LET url == issue_json.comments_url
    IN  IF response.status >= 400
        THEN [exc |-> "HTTPError", sent |-> <<CommentsReq(url.rest)>>, value |-> <<>>]
        ELSE [exc |-> "-", sent |-> <<CommentsReq(url.rest)>>,
              value |-> <<[number |-> issue_json.number,
                           author |-> issue_json.login,
                           messages |-> <<Message(or_empty(issue_json.body),
                                                  issue_json.login)>>
                                        \o comment_messages(response.json),
                           head_branch |-> "-"]>>]

\* _extract_issue (lines 462-492) when its comments request, if it gets to send
\* it, is answered with `response`: the exception or the Issue, and the requests sent.
extract_issue_from(issue_json, response) ==
    LET url == issue_json.comments_url
    IN  IF url.prefix # ApiPrefix
        THEN [exc |-> "AssertionError", sent |-> <<>>, value |-> <<>>]
        ELSE IF response.status >= 400
        THEN [exc |-> "HTTPError", sent |-> <<CommentsReq(url.rest)>>, value |-> <<>>]
        ELSE [exc |-> "-", sent |-> <<CommentsReq(url.rest)>>,
              value |-> <<[number |-> issue_json.number,
                           author |-> issue_json.login,
                           messages |-> <<Message(or_empty(issue_json.body),
                                                  issue_json.login)>>
                                        \o comment_messages(response.json),
                           head_branch |-> "-"]>>]

\* _extract_issue against the platform.
extract_issue(issue_json) ==
    extract_issue_from(issue_json, comments_response(issue_json.comments_url))

\* _extract_pull_request (lines 494-507).
extract_pull_request(pr_json) ==
    LET r == extract_issue(pr_json)
    IN  IF r.exc # "-" THEN r
        ELSE [r EXCEPT !.value = <<[r.value[1] EXCEPT !.head_branch = pr_json.head_ref]>>]

\* ----------------------------------------------------------- get_issues
\* The issues a listing may hold: every kind of comments URL but the second one
\* that answers, every kind of body.
IssueJsons ==
    [comments_url : {u \in Urls : u.rest # "o/r/issues/2/comments"}, body : JsonBodies,
     login : {"alice"}, number : {7}, head_ref : {"-"}]

IssuesResponses ==
    {[status |-> 200, json |-> l] : l \in SeqsUpTo(IssueJsons, MaxIssues)}
    \cup {[status |-> 500, json |-> <<>>]}

\* The list comprehension of lines 524-528 over the issues from position i on:
\* extraction by extraction, stopping at the first that raises.
RECURSIVE extract_all(_, _, _)
extract_all(issues_json, done, sent) ==
    IF issues_json = <<>>
    THEN [exc |-> "-", sent |-> sent, value |-> done]
    ELSE LET r == extract_issue(Head(issues_json))
         IN  IF r.exc # "-"
             THEN [exc |-> r.exc, sent |-> sent \o r.sent, value |-> <<>>]
             ELSE extract_all(Tail(issues_json), done \o r.value, sent \o r.sent)

\* get_issues up to its request (lines 509-514).
get_issues(t, state) ==
    /\ CanStart(t)
    /\ calls' = calls + 1
    /\ history' = [history EXCEPT !.overlapped = @ \/ Overlapping(t)]
    /\ frame' = [frame EXCEPT ![t] =
                    [NoFrame EXCEPT !.op = "get_issues",
                                    !.drafts_at_start = drafts_supported]]
    /\ reqs' = [reqs EXCEPT ![t] = <<IssuesReq(state)>>]
    /\ pc' = [pc EXCEPT ![t] = "issues_get"]
    /\ outcome' = [outcome EXCEPT ![t] = NoOutcome]
    /\ UNCHANGED <<drafts_supported, pr_node_id, resps, node_fetches, pure>>

\* The listing's response as it would be if a failed listing raised like the
\* other operations' failures.
get_issues_response_raises(t, resp) ==
    /\ pc[t] = "issues_get"
    /\ Recv(t, "get_issues", resp)
    /\ IF resp.status # 200
       THEN /\ Finish(t, Raised("RuntimeError"))
            /\ UNCHANGED reqs
       ELSE LET r == extract_all(resp.json, <<>>, <<>>)
            IN  /\ reqs' = [reqs EXCEPT ![t] = @ \o r.sent]
                /\ Finish(t, IF r.exc # "-" THEN Raised(r.exc) ELSE ReturnedIssues(r.value))
    /\ UNCHANGED <<drafts_supported, pr_node_id, frame, node_fetches, calls, history,
                 pure>>

\* The listing's response (lines 515-528).
get_issues_response(t, resp) ==
    /\ pc[t] = "issues_get"
    /\ Recv(t, "get_issues", resp)
    /\ IF resp.status # 200
       THEN /\ Finish(t, ReturnedIssues(<<>>))
            /\ UNCHANGED reqs
       ELSE LET r == extract_all(resp.json, <<>>, <<>>)
            IN  /\ reqs' = [reqs EXCEPT ![t] = @ \o r.sent]
                /\ Finish(t, IF r.exc # "-" THEN Raised(r.exc) ELSE ReturnedIssues(r.value))
    /\ UNCHANGED <<drafts_supported, pr_node_id, frame, node_fetches, calls, history,
                 pure>>

\* ---------------------------------------------------------- parse_event
Opt(S) == {<<>>} \cup {<<x>> : x \in S}

\* The comments URLs of event payloads: one that answers, one that does not, one
\* that is not the platform's.
EventUrls == {u \in Urls : u.rest # "o/r/issues/2/comments"}

PrJsons ==
    [comments_url : EventUrls, body : {<<"text">>}, login : {"alice"}, number : {8},
     head_ref : {"feature"}]

\* event['issue']: an issue payload with its optional 'pull_request' key.
EventIssues ==
    [comments_url : EventUrls, body : {<<>>}, login : {"alice"}, number : {7},
     head_ref : {"-"},
     pull_request : Opt({p \in PrJsons : p.comments_url.rest = "o/r/issues/1/comments"})]

\* A ref is its '/'-separated segments; split('/')[-1] is the last one.
Refs == {<<"refs", "heads", "feature-x">>}

\* A raw payload; <<>> is a key the payload does not have.
Events ==
    [action : Opt({"labeled", "comment", "rename"}), ref : Opt(Refs),
     pull_request : Opt(PrJsons), issue : Opt(EventIssues),
     label : {<<"bug">>}, comment : {<<CommentJson(<<"hello">>, "dave")>>}]

EventNames == {"push", "issues"}

NoEvent ==
    [type |-> "-", branch |-> "-", pull_request |-> <<>>, issue |-> <<>>,
     label |-> "-", comment |-> <<>>]

\* A key lookup that fails, or the extraction r that failed or succeeded and what
\* follows it.
Fail(exc, sent) == [exc |-> exc, sent |-> sent, value |-> NoEvent]

\* The 'labeled' branch (lines 536-540), arguments evaluated left to right.
label_event(event) ==
    LET pr == IF event.pull_request # <<>>
              THEN extract_pull_request(event.pull_request[1])
              ELSE [exc |-> "-", sent |-> <<>>, value |-> <<>>]
        is == IF event.issue # <<>>
              THEN extract_issue(event.issue[1])
              ELSE [exc |-> "-", sent |-> <<>>, value |-> <<>>]
    IN  IF pr.exc # "-" THEN Fail(pr.exc, pr.sent)
        ELSE IF is.exc # "-" THEN Fail(is.exc, pr.sent \o is.sent)
        ELSE IF event.label = <<>> THEN Fail("KeyError", pr.sent \o is.sent)
        ELSE [exc |-> "-", sent |-> pr.sent \o is.sent,
              value |-> [NoEvent EXCEPT !.type = "LabelEvent", !.pull_request = pr.value,
                                        !.issue = is.value, !.label = event.label[1]]]

\* The 'comment' branch (lines 542-549).
comment_event(event) ==
    IF event.issue = <<>> THEN Fail("KeyError", <<>>)
    ELSE IF event.issue[1].pull_request = <<>> THEN Fail("KeyError", <<>>)
    ELSE LET pr == extract_pull_request(event.issue[1].pull_request[1])
             is == extract_issue(event.issue[1])
         IN  IF pr.exc # "-" THEN Fail(pr.exc, pr.sent)
             ELSE IF is.exc # "-" THEN Fail(is.exc, pr.sent \o is.sent)
             ELSE IF event.comment = <<>> THEN Fail("KeyError", pr.sent \o is.sent)
             ELSE [exc |-> "-", sent |-> pr.sent \o is.sent,
                   value |-> [NoEvent EXCEPT
                                !.type = "CommentEvent", !.pull_request = pr.value,
                                !.issue = is.value,
                                !.comment = <<Message(event.comment[1].body[1],
                                                      event.comment[1].login)>>]]

\* The classification as it would be with `else` for `elif ... == 'comment'`.
classify_else_comment(event, event_name) ==
    IF event_name = "push"
    THEN IF event.ref = <<>> THEN Fail("KeyError", <<>>)
         ELSE [exc |-> "-", sent |-> <<>>,
               value |-> [NoEvent EXCEPT !.type = "PushEvent",
                                         !.branch = event.ref[1][Len(event.ref[1])]]]
    ELSE IF event.action = <<>> THEN Fail("KeyError", <<>>)
    ELSE IF event.action[1] = "labeled" THEN label_event(event)
    ELSE comment_event(event)

\* parse_event's classification (lines 531-550).
classify(event, event_name) ==
    IF event_name = "push"
    THEN IF event.ref = <<>> THEN Fail("KeyError", <<>>)
         ELSE [exc |-> "-", sent |-> <<>>,
               value |-> [NoEvent EXCEPT !.type = "PushEvent",
                                         !.branch = event.ref[1][Len(event.ref[1])]]]
    ELSE IF event.action = <<>> THEN Fail("KeyError", <<>>)
    ELSE IF event.action[1] = "labeled" THEN label_event(event)
    ELSE IF event.action[1] = "comment" THEN comment_event(event)
    ELSE Fail("NotImplementedError", <<>>)

\* parse_event (lines 530-550): not a coroutine, it runs from call to return.
parse_event(t, event, event_name) ==
    /\ CanStart(t)
    /\ calls' = calls + 1
    /\ history' = [history EXCEPT !.overlapped = @ \/ Overlapping(t)]
    /\ frame' = [frame EXCEPT ![t] =
                    [NoFrame EXCEPT !.op = "parse_event", !.event_name = event_name,
                                    !.action = event.action,
                                    !.drafts_at_start = drafts_supported]]
    /\ LET r == classify(event, event_name)
       IN  /\ reqs' = [reqs EXCEPT ![t] = r.sent]
           /\ Finish(t, IF r.exc # "-" THEN Raised(r.exc) ELSE ReturnedEvent(r.value))
    /\ UNCHANGED <<drafts_supported, pr_node_id, resps, node_fetches, pure>>

\* ------------------------------------------- the single-request operations
PatchResponses == {[status |-> 200], [status |-> 422]}

\* The open PRs a search may answer with: prs[0]['number'] is the first.
FindResponses ==
    {[status |-> 200, prs |-> l] : l \in {<<>>, <<1>>, <<2, 1>>}}
    \cup {[status |-> 403, prs |-> <<>>]}

\* A call of one request: the frame, the request, the place it waits at.
OneRequest(t, op, req, at) ==
    /\ CanStart(t)
    /\ calls' = calls + 1
    /\ history' = [history EXCEPT !.overlapped = @ \/ Overlapping(t)]
    /\ frame' = [frame EXCEPT ![t] =
                    [NoFrame EXCEPT !.op = op, !.drafts_at_start = drafts_supported]]
    /\ reqs' = [reqs EXCEPT ![t] = <<req>>]
    /\ pc' = [pc EXCEPT ![t] = at]
    /\ outcome' = [outcome EXCEPT ![t] = NoOutcome]
    /\ UNCHANGED <<drafts_supported, pr_node_id, resps, node_fetches, pure>>

\* update_pr_body (lines 416-417) and update_pr_title (lines 419-420), up to
\* _patch_pr's request (lines 324-328).
update_pr_body(t, pr_number, body) ==
    OneRequest(t, "update_pr_body", PatchPrReq(pr_number, "body", body), "patch_pr")

update_pr_title(t, pr_number, title) ==
    OneRequest(t, "update_pr_title", PatchPrReq(pr_number, "title", title), "patch_pr")

\* _patch_pr's response (lines 329-339): logged on failure, None either way.
patch_pr_response(t, resp) ==
    /\ pc[t] = "patch_pr"
    /\ Recv(t, "patch_pr", resp)
    /\ Finish(t, ReturnedOptional(<<>>))
    /\ UNCHANGED <<drafts_supported, pr_node_id, frame, reqs, node_fetches, calls,
                 history, pure>>

\* update_comment (lines 422-438).
update_comment(t, comment_id, body) ==
    OneRequest(t, "update_comment", PatchCommentReq(comment_id, body), "update_comment")

update_comment_response(t, resp) ==
    /\ pc[t] = "update_comment"
    /\ Recv(t, "update_comment", resp)
    /\ Finish(t, ReturnedOptional(<<>>))
    /\ UNCHANGED <<drafts_supported, pr_node_id, frame, reqs, node_fetches, calls,
                 history, pure>>

\* publish_comment called on its own (lines 440-460).
publish_comment(t, text, issue_number) ==
    OneRequest(t, "publish_comment", CommentReq(text, issue_number), "publish_comment")

publish_comment_response(t, resp) ==
    /\ pc[t] = "publish_comment"
    /\ Recv(t, "publish_comment", resp)
    /\ Finish(t, ReturnedOptional(IF publish_comment_result(resp) = None THEN <<>>
                                  ELSE <<publish_comment_result(resp)>>))
    /\ UNCHANGED <<drafts_supported, pr_node_id, frame, reqs, node_fetches, calls,
                 history, pure>>

\* find_existing_pr (lines 235-259).
find_existing_pr(t) == OneRequest(t, "find_existing_pr", FindPrReq, "find_existing_pr")

find_existing_pr_response(t, resp) ==
    /\ pc[t] = "find_existing_pr"
    /\ Recv(t, "find_existing_pr", resp)
    /\ Finish(t, ReturnedOptional(IF resp.status = 200 /\ resp.prs # <<>>
                                  THEN <<resp.prs[1]>> ELSE <<>>))
    /\ UNCHANGED <<drafts_supported, pr_node_id, frame, reqs, node_fetches, calls,
                 history, pure>>

Next ==
    \E t \in SerialTasks :
        \/ \E bodies \in BodyLists, draft \in BOOLEAN : create_pr(t, bodies, draft)
        \/ \E resp \in CreateResponses : create_pr_first_response(t, resp)
        \/ \E resp \in CreateResponses : create_pr_second_response(t, resp)
        \/ \E resp \in CommentResponses : create_pr_comment_response(t, resp)
        \/ \E pr_number \in PrNumbers, is_draft \in BOOLEAN :
              set_pr_draft_status(t, pr_number, is_draft)
        \/ \E resp \in NodeIdResponses : node_id_response(t, resp)
        \/ \E resp \in MutationResponses : mutation_response(t, resp)
        \/ \E state \in {"open", "all"} : get_issues(t, state)
        \/ \E resp \in IssuesResponses : get_issues_response(t, resp)
        \/ \E event \in Events, event_name \in EventNames :
              parse_event(t, event, event_name)
        \/ \E pr_number \in PrNumbers, body \in BodyTexts : update_pr_body(t, pr_number, body)
        \/ \E pr_number \in PrNumbers, title \in {"T"} : update_pr_title(t, pr_number, title)
        \/ \E resp \in PatchResponses : patch_pr_response(t, resp)
        \/ \E comment_id \in CommentIds, body \in BodyTexts :
              update_comment(t, comment_id, body)
        \/ \E resp \in PatchResponses : update_comment_response(t, resp)
        \/ \E text \in BodyTexts, issue_number \in PrNumbers :
              publish_comment(t, text, issue_number)
        \/ \E resp \in CommentResponses : publish_comment_response(t, resp)
        \/ find_existing_pr(t)
        \/ \E resp \in FindResponses : find_existing_pr_response(t, resp)
        \/ await_result(t)

Spec == Init /\ [][Next]_vars


\* ------------------------------------- the functions applied on their own
\* _extract_issue and parse_event never yield and touch nothing of the instance:
\* this specification applies each once to every payload of the sets below.
CommentJsons == [body : JsonBodies, login : {"bob", "carol"}]

CommentsResponses ==
    {[status |-> 200, json |-> l] : l \in SeqsUpTo(CommentJsons, MaxComments)}
    \cup {[status |-> 404, json |-> <<>>]}

ExtractArgs ==
    {<<i, r>> : i \in {j \in IssueJsons : j.comments_url.rest = "o/r/issues/1/comments"},
                r \in CommentsResponses}

ParseArgs == {<<e, n>> : e \in Events, n \in EventNames}

InitPure ==
    /\ InitInstance
    /\ pure \in {[fn |-> "extract_issue", arg |-> a, result |-> <<>>] : a \in ExtractArgs}
           \cup {[fn |-> "parse_event", arg |-> a, result |-> <<>>] : a \in ParseArgs}

\* _extract_issue (lines 462-492) applied to pure.arg.
run_extract_issue ==
    /\ pure.fn = "extract_issue" /\ pure.result = <<>>
    /\ pure' = [pure EXCEPT !.result = <<extract_issue_from(pure.arg[1], pure.arg[2])>>]
    /\ UNCHANGED <<drafts_supported, pr_node_id, pc, frame, reqs, resps, outcome,
                   node_fetches, calls, history>>

\* parse_event (lines 530-550) applied to pure.arg.
run_parse_event ==
    /\ pure.fn = "parse_event" /\ pure.result = <<>>
    /\ pure' = [pure EXCEPT !.result = <<classify(pure.arg[1], pure.arg[2])>>]
    /\ UNCHANGED <<drafts_supported, pr_node_id, pc, frame, reqs, resps, outcome,
                   node_fetches, calls, history>>

NextPure == run_extract_issue \/ run_parse_event

SpecPure == InitPure /\ [][NextPure]_vars


\* ------------------------------------- calls that overlap on one instance
\* Nothing in the class serialises its coroutines: a caller may start a call
\* while another is suspended at a request. The operations that read or write
\* _drafts_supported and _pr_node_id, on two tasks, create_pr with one body.
ConcBodyLists == {<<b>> : b \in {"A"}}

NextConc ==
    \E t \in Tasks :
        \/ \E bodies \in ConcBodyLists, draft \in BOOLEAN : create_pr(t, bodies, draft)
        \/ \E resp \in CreateResponses : create_pr_first_response(t, resp)
        \/ \E resp \in CreateResponses : create_pr_second_response(t, resp)
        \/ \E pr_number \in PrNumbers, is_draft \in BOOLEAN :
              set_pr_draft_status(t, pr_number, is_draft)
        \/ \E resp \in NodeIdResponses : node_id_response(t, resp)
        \/ \E resp \in MutationResponses : mutation_response(t, resp)
        \/ await_result(t)

SpecConc == Init /\ [][NextConc]_vars

\* ================================================================ claims
\* The calls the claims speak of, seen from the state: the call task t is in (or
\* has just finished), its requests of one kind and the responses it received.
InCall(t, op) == frame[t].op = op
Ended(t) == pc[t] = "done"
ReqsOfKind(t, kind) == SelectSeq(reqs[t], LAMBDA r : r.kind = kind)
RespsTo(t, kind) == SelectSeq(resps[t], LAMBDA r : r.to = kind)

\* The first creation response of t's create_pr carries the draft-unsupported
\* signature / is a rejection that does not.
FirstRejectedAsDraft(t) ==
    /\ InCall(t, "create_pr") /\ resps[t] # <<>>
    /\ resps[t][1].resp.status # 201
    /\ resps[t][1].resp.text.json
    /\ resps[t][1].resp.text.message = <<DraftMessage>>

FirstRejectedOtherwise(t) ==
    /\ InCall(t, "create_pr") /\ resps[t] # <<>>
    /\ resps[t][1].resp.status # 201
    /\ resps[t][1].resp.text.message # <<DraftMessage>>

\* C1 (as claimed): in every instance state, a create_pr whose first creation
\* request is rejected with the draft-unsupported signature has, when it returns
\* or raises, issued exactly two creation requests, the second without a draft
\* field, and the draft-support flag is false.
C1_TwoCreationRequests ==
    \A t \in Tasks :
        (FirstRejectedAsDraft(t) /\ Ended(t)) =>
            /\ Len(ReqsOfKind(t, "create_pr")) = 2
            /\ ReqsOfKind(t, "create_pr")[2].draft = "absent"
            /\ ~drafts_supported

\* C2: a create_pr on a non-empty list of bodies that returns normally returns one
\* comment identifier per body, the sentinel at index 0 and nowhere else.
C2_OneIdPerBody ==
    \A t \in Tasks :
        (InCall(t, "create_pr") /\ Ended(t) /\ outcome[t].how = "returned"
         /\ frame[t].bodies # <<>>) =>
            LET ids == outcome[t].comment_ids
            IN  /\ Len(ids) = Len(frame[t].bodies)
                /\ ids[1] = PRBodySentinel
                /\ \A i \in 2..Len(ids) : ids[i] # PRBodySentinel

C2_Witness ==
    \E t \in Tasks :
        /\ InCall(t, "create_pr") /\ Ended(t) /\ outcome[t].how = "returned"
        /\ Len(frame[t].bodies) = MaxBodies
        /\ Len(outcome[t].comment_ids) = MaxBodies

\* C3: a set_pr_draft_status that starts with the draft-support flag false, for
\* either value of is_draft and any PR number, has ended at once, having returned
\* normally and issued no request (no identifier fetch, no mutation).
C3_NoRequestOnceUnsupported ==
    \A t \in Tasks :
        (InCall(t, "set_pr_draft_status") /\ ~frame[t].drafts_at_start) =>
            /\ Ended(t)
            /\ outcome[t].how = "returned"
            /\ reqs[t] = <<>>

C3_Witness ==
    \E t \in Tasks :
        /\ InCall(t, "set_pr_draft_status") /\ ~frame[t].drafts_at_start
        /\ Ended(t) /\ frame[t].is_draft
        /\ pr_node_id # None

\* All identifier fetches the instance has issued.
RECURSIVE SumOver(_, _)
SumOver(f, S) ==
    IF S = {} THEN 0 ELSE LET x == CHOOSE y \in S : TRUE IN f[x] + SumOver(f, S \ {x})
NodeFetchesIssued == SumOver(node_fetches, PrNumbers)

\* C4 (as claimed): over serialised set_pr_draft_status calls with one PR number,
\* whatever each request's outcome, the identifier fetch is issued at most once.
C4_FetchAtMostOnce == \A p \in PrNumbers : node_fetches[p] <= 1

\* C4 (amended): once the identifier is cached no operation issues another
\* identifier fetch, for any PR number, and no call issues more than one.
C4_NoFetchOnceCached ==
    [][/\ pr_node_id # None => node_fetches' = node_fetches
       /\ \A t \in Tasks : Len(ReqsOfKind(t, "get_node_id")) <= 1]_vars

C4_Witness ==
    \E t \in Tasks :
        /\ InCall(t, "set_pr_draft_status") /\ Ended(t)
        /\ reqs[t] # <<>> /\ reqs[t][1].kind # "get_node_id"
        /\ calls = 2 /\ NodeFetchesIssued = 1

\* C5: a create_pr whose first creation request is rejected without the
\* draft-unsupported signature has ended by raising, having issued that one
\* creation request and no comment.
C5_OtherRejectionIsFatal ==
    \A t \in Tasks :
        FirstRejectedOtherwise(t) =>
            /\ Ended(t)
            /\ outcome[t].how = "raised"
            /\ outcome[t].exc \in {"RuntimeError", "JSONDecodeError"}
            /\ Len(reqs[t]) = 1
            /\ reqs[t][1].kind = "create_pr"

C5_Witness ==
    \E t \in Tasks :
        /\ FirstRejectedOtherwise(t) /\ Ended(t)
        /\ resps[t][1].resp.text.message = <<OtherMessage>>
        /\ Len(frame[t].bodies) > 1

\* C6: the draft-support flag starts true and no step of any operation sets it
\* back to true once it is false.
C6_FlagMonotonic ==
    /\ drafts_supported = TRUE
    /\ [][drafts_supported = FALSE => drafts_supported' = FALSE]_vars

\* The flag is false and later calls have received rejections and successes.
C6_Witness ==
    \E t \in Tasks :
        /\ ~drafts_supported /\ ~frame[t].drafts_at_start
        /\ FirstRejectedOtherwise(t) /\ Ended(t)
        /\ resps[t][1].resp.text.message = <<OtherMessage>>

\* The platform accepted t's first creation request and published every comment.
AcceptedThroughout(t) ==
    /\ InCall(t, "create_pr") /\ Ended(t) /\ resps[t] # <<>>
    /\ \A i \in 1..Len(resps[t]) : resps[t][i].resp.status = 201

\* What C7 says of such a call, with `first` the creation request it expects:
\* that request alone, then one comment request per further body, in order, on the
\* PR number of the creation response; the ids returned are the ids received.
RequestsAre(t, first) ==
    LET bodies == frame[t].bodies
        n == Len(bodies)
    IN  /\ Len(reqs[t]) = n /\ Len(resps[t]) = n
        /\ reqs[t][1] = first
        /\ \A i \in 2..n : reqs[t][i] = CommentReq(bodies[i], resps[t][1].resp.number)
        /\ outcome[t].how = "returned"
        /\ outcome[t].pr_number = resps[t][1].resp.number
        /\ Len(outcome[t].comment_ids) = n
        /\ \A i \in 2..n : outcome[t].comment_ids[i] = resps[t][i].resp.id

\* C7 (as claimed): when the platform accepts the creation request and every
\* comment publish succeeds, create_pr on n bodies issues one creation request
\* carrying the first body and the draft field, then the n-1 comment requests for
\* bodies 1..n-1 in order on the new PR; index i >= 1 of the result holds the id
\* returned for body i.
C7_DraftFieldAlwaysSent ==
    \A t \in Tasks :
        AcceptedThroughout(t) =>
            \E d \in {"true", "false"} : RequestsAre(t, CreateReq(frame[t].bodies[1], d))

\* C7 (amended): the same, the creation request carrying the draft field (with the
\* draft argument's value) exactly when the draft-support flag is true at the
\* start of the call, and no draft field otherwise.
C7_RequestsInOrder ==
    \A t \in Tasks :
        AcceptedThroughout(t) =>
            RequestsAre(t, CreateReq(frame[t].bodies[1],
                                     IF ~frame[t].drafts_at_start THEN "absent"
                                     ELSE IF frame[t].draft THEN "true" ELSE "false"))

C7_Witness ==
    \E t \in Tasks :
        /\ AcceptedThroughout(t) /\ Len(frame[t].bodies) = 3
        /\ frame[t].bodies[2] # frame[t].bodies[3]
        /\ outcome[t].comment_ids[2] # outcome[t].comment_ids[3]
        /\ frame[t].drafts_at_start

\* The last response t's create_pr received is a comment publish without an id.
CommentPublishFailed(t) ==
    /\ InCall(t, "create_pr") /\ resps[t] # <<>>
    /\ resps[t][Len(resps[t])].to = "publish_comment"
    /\ resps[t][Len(resps[t])].resp.status # 201

\* C8: when the comment publish for body k returns no id, create_pr has ended by
\* raising, with no result; its requests are the creation request(s) followed by
\* the comment requests for bodies 1..k in order, all but the last answered with
\* an id: nothing is published after body k and nothing is undone.
C8_AbortOnFailedComment ==
    \A t \in Tasks :
        CommentPublishFailed(t) =>
            LET published == ReqsOfKind(t, "publish_comment")
                answers == RespsTo(t, "publish_comment")
                created == ReqsOfKind(t, "create_pr")
                k == Len(published)
            IN  /\ Ended(t)
                /\ outcome[t] = Raised("RuntimeError")
                /\ reqs[t] = created \o published
                /\ Len(answers) = k
                /\ k < Len(frame[t].bodies)
                /\ \A i \in 1..k :
                      published[i] = CommentReq(frame[t].bodies[i + 1], frame[t].pr_number)
                /\ \A i \in 1..(k - 1) : answers[i].resp.status = 201

\* Body 1 was published, body 2 failed, body 3 was never sent.
C8_Witness ==
    \E t \in Tasks :
        /\ CommentPublishFailed(t) /\ Ended(t)
        /\ Len(frame[t].bodies) = 3
        /\ Len(ReqsOfKind(t, "publish_comment")) = 2

\* C9: a get_issues whose listing is answered with a status that is not a success
\* has ended by returning the empty list, having issued the listing request and no
\* comment fetch.
C9_FailedListingIsEmpty ==
    \A t \in Tasks :
        (InCall(t, "get_issues") /\ resps[t] # <<>> /\ resps[t][1].resp.status # 200) =>
            /\ Ended(t)
            /\ outcome[t] = ReturnedIssues(<<>>)
            /\ Len(reqs[t]) = 1
            /\ reqs[t][1].kind = "get_issues"

C9_Witness ==
    \E t \in Tasks :
        /\ InCall(t, "get_issues") /\ Ended(t)
        /\ resps[t] # <<>> /\ resps[t][1].resp.status = 500

Extracted == pure.fn = "extract_issue" /\ pure.result # <<>>
Parsed == pure.fn = "parse_event" /\ pure.result # <<>>

\* The message body a JSON body (null, empty or a text) is to become.
BodyText(b) == IF b = <<>> \/ b = <<"">> THEN "" ELSE b[1]

\* C11: extraction of an issue whose comments request is answered with n comments
\* yields n+1 messages: the issue's body by the issue's author, then the comments
\* in fetched order, each by its commenter; a null or empty body is an empty
\* string and its message is there.
C11_OneMessagePerComment ==
    (Extracted /\ pure.result[1].exc = "-") =>
        LET issue_json == pure.arg[1]
            comments == pure.arg[2].json
            messages == pure.result[1].value[1].messages
        IN  /\ Len(messages) = Len(comments) + 1
            /\ messages[1] = [body |-> BodyText(issue_json.body), author |-> issue_json.login]
            /\ \A i \in 1..Len(comments) :
                  messages[i + 1] = [body |-> BodyText(comments[i].body),
                                      author |-> comments[i].login]

\* A null issue body, a null comment body, then a comment with a text.
C11_Witness ==
    /\ Extracted /\ pure.result[1].exc = "-"
    /\ pure.arg[1].body = <<>>
    /\ Len(pure.arg[2].json) = 2
    /\ pure.arg[2].json[1].body = <<>> /\ pure.arg[2].json[2].body = <<"text">>
    /\ pure.arg[2].json[1].login # pure.arg[2].json[2].login
    /\ Len(pure.result[1].value[1].messages) = 3

\* The draft/undraft mutation requests and their answers within the call of t.
Mutations == {"convertPullRequestToDraft", "markPullRequestReadyForReview"}
MutationReqs(t) == SelectSeq(reqs[t], LAMBDA r : r.kind \in Mutations)
MutationFailed(t) ==
    \E i \in 1..Len(resps[t]) : resps[t][i].to \in Mutations /\ resps[t][i].resp.status # 200
FetchFailed(t) ==
    \E i \in 1..Len(resps[t]) : resps[t][i].to = "get_node_id" /\ resps[t][i].resp.status # 200

\* C12: a set_pr_draft_status call whose mutation request is answered with a
\* failure has issued exactly one mutation request, ends by returning (it does
\* not raise), and the draft-support flag is false.
C12_FailedMutationDegrades ==
    \A t \in Tasks :
        (InCall(t, "set_pr_draft_status") /\ MutationFailed(t)) =>
            /\ Ended(t)
            /\ outcome[t].how = "returned"
            /\ Len(MutationReqs(t)) = 1
            /\ drafts_supported = FALSE

\* The mutation of a call that began with the flag true and fetched the identifier
\* has been answered with a failure.
C12_Witness ==
    \E t \in Tasks :
        /\ InCall(t, "set_pr_draft_status") /\ MutationFailed(t) /\ Ended(t)
        /\ frame[t].drafts_at_start
        /\ Len(ReqsOfKind(t, "get_node_id")) = 1

\* C13: a set_pr_draft_status call that began with drafts supported and the cache
\* empty and whose identifier fetch failed raises, has issued no mutation request,
\* and leaves the flag true and the cache empty.
C13_FailedFetchRaises ==
    \A t \in Tasks :
        (InCall(t, "set_pr_draft_status") /\ FetchFailed(t)) =>
            /\ Ended(t)
            /\ outcome[t].how = "raised" /\ outcome[t].exc = "RuntimeError"
            /\ MutationReqs(t) = <<>>
            /\ reqs[t] = <<NodeIdReq(frame[t].pr_number)>>
            /\ drafts_supported = TRUE
            /\ pr_node_id = None

C13_Witness ==
    \E t \in Tasks :
        /\ InCall(t, "set_pr_draft_status") /\ FetchFailed(t) /\ Ended(t)
        /\ frame[t].drafts_at_start
        /\ outcome[t].how = "raised"

\* C14: the cached identifier, once set, is never overwritten or cleared by any
\* step of any operation, and every draft-mutation request carries the cached
\* value, whatever the PR number of the call.
C14_CacheIsKept ==
    /\ [](\A t \in Tasks : \A i \in 1..Len(MutationReqs(t)) :
             MutationReqs(t)[i].id = pr_node_id)
    /\ [][pr_node_id # None => pr_node_id' = pr_node_id]_vars

\* The identifier was fetched by a call for one PR number; a later call for the
\* other PR number has sent its mutation with it, without a fetch.
C14_Witness ==
    \E t \in Tasks : \E p \in PrNumbers :
        /\ InCall(t, "set_pr_draft_status") /\ frame[t].pr_number # p
        /\ node_fetches[p] = 1 /\ node_fetches[frame[t].pr_number] = 0
        /\ pr_node_id # None
        /\ reqs[t] = <<MutationReq(graphql_query(frame[t].is_draft), pr_node_id)>>

\* The creation requests of t's call so far.
CreateReqs(t) == ReqsOfKind(t, "create_pr")

\* C15: the first creation request of a create_pr call has the draft field exactly
\* when the draft-support flag was true as the call started, and a creation
\* request sent while the flag is false has no draft field, whatever `draft` is.
C15_DraftFieldFollowsFlag ==
    /\ [](\A t \in Tasks :
             (InCall(t, "create_pr") /\ CreateReqs(t) # <<>>) =>
                 (CreateReqs(t)[1].draft # "absent" <=> frame[t].drafts_at_start))
    /\ [][\A t \in Tasks :
             (/\ Len(reqs'[t]) = Len(reqs[t]) + 1
              /\ reqs'[t][Len(reqs'[t])].kind = "create_pr"
              /\ drafts_supported' = FALSE)
             => reqs'[t][Len(reqs'[t])].draft = "absent"]_vars

\* A create_pr(draft=True) that began with the flag false has sent its request.
C15_Witness ==
    \E t \in Tasks :
        /\ InCall(t, "create_pr") /\ frame[t].draft /\ ~frame[t].drafts_at_start
        /\ Len(CreateReqs(t)) = 1 /\ CreateReqs(t)[1].draft = "absent"

\* C16: an operation other than the issue listing and the draft fallback that
\* receives a failure response surfaces it: update_pr_title, update_pr_body and
\* update_comment do not return normally after a non-success response.
C16_FailuresSurface ==
    \A t \in Tasks :
        (/\ frame[t].op \in {"update_pr_title", "update_pr_body", "update_comment"}
         /\ \E i \in 1..Len(resps[t]) : resps[t][i].resp.status # 200)
        => outcome[t].how # "returned"

\* The payload parse_event was applied to, under an event name other than 'push'.
ParsedAction(a) ==
    /\ Parsed /\ pure.arg[2] # "push"
    /\ pure.arg[1].action = <<a>>

\* Extraction of the embedded payload j (absent, or one whose extraction succeeds).
Extractable(j) == j = <<>> \/ extract_issue(j[1]).exc = "-"

\* C17: parse_event on a 'comment' payload whose issue has no pull-request
\* reference yields a comment event with the pull request absent and the issue
\* and the comment present; on a 'labeled' payload lacking the pull-request or
\* the issue key it yields a label event with that field absent.
C17_AbsentReferencesAreOptional ==
    LET event == pure.arg[1]
        r == pure.result[1]
    IN  /\ (/\ ParsedAction("comment")
            /\ event.issue # <<>> /\ event.issue[1].pull_request = <<>>
            /\ Extractable(event.issue))
           => /\ r.exc = "-"
              /\ r.value.type = "CommentEvent"
              /\ r.value.pull_request = <<>>
              /\ r.value.issue # <<>> /\ r.value.comment # <<>>
        /\ (/\ ParsedAction("labeled")
            /\ event.pull_request = <<>> \/ event.issue = <<>>
            /\ Extractable(event.pull_request) /\ Extractable(event.issue))
           => /\ r.exc = "-"
              /\ r.value.type = "LabelEvent"
              /\ (event.pull_request = <<>> => r.value.pull_request = <<>>)
              /\ (event.issue = <<>> => r.value.issue = <<>>)

\* C18: extraction of an issue whose comments link does not start with the
\* platform's API prefix fails with the assertion, sends no request to the link
\* and produces no Issue, whatever the link would have answered.
C18_LinkValidatedBeforeUse ==
    (Extracted /\ pure.arg[1].comments_url.prefix # ApiPrefix) =>
        /\ pure.result[1].exc = "AssertionError"
        /\ pure.result[1].sent = <<>>
        /\ pure.result[1].value = <<>>

\* A foreign link that would have answered with two comments.
C18_Witness ==
    /\ Extracted /\ pure.arg[1].comments_url.prefix # ApiPrefix
    /\ pure.arg[2].status = 200 /\ Len(pure.arg[2].json) = 2
    /\ pure.result[1].exc # "-"

\* C19: with the calls of the instance awaited one after another and every
\* identifier fetch answered with success, the fetch is issued at most once;
\* two set_pr_draft_status calls that overlap, both begun with drafts supported
\* and the cache empty, issue it twice (the witness).
C19_SerialisedCallsFetchOnce ==
    (~history.overlapped /\ history.failed_fetches = 0) => NodeFetchesIssued <= 1

C19_Witness ==
    \E t, u \in Tasks :
        /\ t # u /\ history.overlapped /\ history.failed_fetches = 0
        /\ InCall(t, "set_pr_draft_status") /\ InCall(u, "set_pr_draft_status")
        /\ frame[t].drafts_at_start /\ frame[u].drafts_at_start
        /\ Len(ReqsOfKind(t, "get_node_id")) = 1 /\ Len(ReqsOfKind(u, "get_node_id")) = 1
        /\ NodeFetchesIssued = 2

\* C20: with the calls of the instance awaited one after another no mutation
\* request is sent while the draft-support flag is false; a set_pr_draft_status
\* call suspended after its check sends its mutation although an overlapping
\* create_pr or set_pr_draft_status has made the flag false (the witness).
C20_SerialisedCallsRespectFlag ==
    ~history.overlapped => history.unsupported_mutations = 0

C20_Witness ==
    \E t, u \in Tasks :
        /\ t # u /\ history.overlapped /\ history.unsupported_mutations = 1
        /\ InCall(t, "set_pr_draft_status") /\ frame[t].drafts_at_start
        /\ pc[t] = "mutation" /\ Len(MutationReqs(t)) = 1
        /\ drafts_supported = FALSE
        /\ \/ InCall(u, "create_pr") /\ FirstRejectedAsDraft(u)
           \/ InCall(u, "set_pr_draft_status") /\ MutationFailed(u)

\* A creation response that carries the draft-unsupported signature.
DraftSignature(resp) ==
    /\ resp.status # 201 /\ resp.text.json
    /\ resp.text.message # <<>> /\ resp.text.message[1] \in DraftMessages

\* t's create_pr has received a creation response with the signature.
SawDraftSignature(t) ==
    \E i \in 1..Len(resps[t]) :
        resps[t][i].to = "create_pr" /\ DraftSignature(resps[t][i].resp)

\* The step is one of t's create_pr: its call, or the handling of a response.
CreatePrStep(t) ==
    /\ frame'[t].op = "create_pr"
    /\ pc'[t] # pc[t] \/ reqs'[t] # reqs[t] \/ resps'[t] # resps[t]

\* No step of a create_pr call writes the cached identifier, and no request it
\* sends carries one.
CreatePrLeavesCache ==
    \A t \in Tasks :
        CreatePrStep(t) =>
            /\ pr_node_id' = pr_node_id
            /\ \A i \in 1..Len(reqs'[t]) : reqs'[t][i].id = "-"

\* t's create_pr has raised, and the response it raised on (if any) is not a
\* creation response with the draft-unsupported signature.
FailedOtherwise(t) ==
    /\ InCall(t, "create_pr") /\ Ended(t) /\ outcome[t].how = "raised"
    /\ \/ resps[t] = <<>>
       \/ resps[t][Len(resps[t])].to # "create_pr"
       \/ ~DraftSignature(resps[t][Len(resps[t])].resp)

\* C21: no step of a create_pr call writes the cached PR identifier or sends it,
\* and a create_pr call that fails for a reason other than the draft-unsupported
\* signature (a failed comment publish included) leaves the draft-support flag
\* as it was when the call started.
C21_FailureKeepsFlag ==
    /\ [][CreatePrLeavesCache]_vars
    /\ [](\A t \in Tasks :
             FailedOtherwise(t) => drafts_supported = frame[t].drafts_at_start)

\* C21 (amended): no step of a create_pr call writes the cached PR identifier or
\* sends it; as long as no creation response of the call carried the
\* draft-unsupported signature the flag is as it was when the call started,
\* however the call ends; from a creation response with the signature on the
\* flag is false, also when the call then fails for another reason.
C21_FlagChangesOnlyOnSignature ==
    /\ [][CreatePrLeavesCache]_vars
    /\ [](\A t \in Tasks :
             InCall(t, "create_pr") =>
                 IF SawDraftSignature(t)
                 THEN drafts_supported = FALSE
                 ELSE drafts_supported = frame[t].drafts_at_start)

\* With an identifier cached and the flag true, a create_pr that met no
\* signature has raised on a failed comment publish.
C21_Witness ==
    \E t \in Tasks :
        /\ FailedOtherwise(t) /\ CommentPublishFailed(t) /\ ~SawDraftSignature(t)
        /\ frame[t].drafts_at_start /\ drafts_supported
        /\ pr_node_id # None
====
